---- MODULE Spec2Model ----
(***************************************************************************)
(* The "universal ping" scheduler of tagtime-rs (src/src/scheduler.rs):    *)
(* a multiplicative congruential generator (LCG) indexed by 100 ms ticks,  *)
(* and the scheduler State that scans ticks for the next one whose         *)
(* generator value is below modulus / (gap * 10).                          *)
(*                                                                         *)
(* Three specifications share the pure operators below:                    *)
(*   Spec      one scheduler driven by next_time(cur) and Iterator::next   *)
(*   SpecNest  two schedulers that differ only in their gap, iterated      *)
(*   SpecLCG   one generator driven by pow(exp) and next()                 *)
(***************************************************************************)
EXTENDS Integers, Sequences, FiniteSets

VARIABLES
    sched,    \* Spec: the State object [time, gap, lcg]
    sched0,   \* Spec: the State as constructed (history)
    op,       \* Spec: the last call: "new", "next_time", "replay", "next"
    cur,      \* Spec: the argument of the last next_time call
    pre,      \* Spec: the State before the last call (replay: before the pair)
    status,   \* Spec: "ok", "hung" (the scan never ends), "panic"
    ret,      \* Spec: <<the last timestamp Iterator::next returned>>, or NoRet
    preRet,   \* Spec: ret before the last call
    jump,     \* Spec: the tick difference and the pow calls of the last call
    a0,       \* SpecNest: a as constructed (history)
    a,        \* SpecNest: the scheduler with the smaller gap
    b,        \* SpecNest: the scheduler with the larger gap
    pingsA,   \* SpecNest: the timestamps a's iterator has produced
    pingsB,   \* SpecNest: the timestamps b's iterator has produced
    statA,    \* SpecNest: "ok" or "hung", of a
    statB,    \* SpecNest: "ok" or "hung", of b
    lcg,      \* SpecLCG: the generator
    lcg0,     \* SpecLCG: the generator as constructed (history)
    calls     \* SpecLCG: the calls made, each <<"pow", exp>> or <<"next", 1>>

schedVars == <<sched, sched0, op, cur, pre, status, ret, preRet, jump>>
nestVars == <<a0, a, b, pingsA, pingsB, statA, statB>>
lcgVars == <<lcg, lcg0, calls>>
vars == <<schedVars, nestVars, lcgVars>>

(***************************************************************************)
(* Bounds of the model.                                                    *)
(***************************************************************************)
\* The last tick (100 ms unit) a scheduler is driven to.
MaxTick == 24
\* The largest gap, in seconds, a scheduler is constructed with.
MaxGap == 4
\* The largest exponent handed to pow in SpecLCG.
MaxExp == 4
\* The number of generator calls in a run of SpecLCG.
MaxCalls == 3

\* Milliseconds per tick: timestamp_millis() / 100 and new_incs * 100.
TickMs == 100
\* Ticks per second of gap: gap * Integer::from(10).
TicksPerSecond == 10

\* The turns of the scan loop the model evaluates in one stretch.
ScanChunkLen == 8

MaxTime == MaxTick * TickMs

NoRet == <<>>
Idle == "idle"

(***************************************************************************)
(* Integer arithmetic as Rust's i64 and rug's Integer do it.               *)
(***************************************************************************)
Abs(x) == IF x < 0 THEN -x ELSE x

\* Division truncating toward zero (i64 `/`, rug `/`); b # 0.
TruncDiv(x, y) ==
    LET q == Abs(x) \div Abs(y)
    IN IF (x < 0) # (y < 0) THEN -q ELSE q

\* Remainder with the sign of the dividend (rug `%`); b # 0.
TruncRem(x, y) == x - y * TruncDiv(x, y)

\* Integer::pow_mod for exp >= 0 and modulus > 0: a result in [0, modulus),
\* by square and multiply.
RECURSIVE PowMod(_, _, _)
PowMod(base, exp, modulus) ==
    IF exp = 0 THEN 1 % modulus
    ELSE LET h == PowMod(base, exp \div 2, modulus)
             sq == (h * h) % modulus
         IN IF exp % 2 = 1 THEN (sq * base) % modulus ELSE sq

(***************************************************************************)
(* LCG                                                                     *)
(***************************************************************************)
LCG(multiplier, modulus, state) ==
    [multiplier |-> multiplier, modulus |-> modulus, state |-> state]

\* pow with the exponent used as a factor: multiplier * exp in place of
\* multiplier^exp mod modulus.
pow_mul(g, exp) ==
    [g EXCEPT !.state = TruncRem(g.multiplier * exp * g.state, g.modulus)]

\* pow without the final reduction modulo modulus.
pow_unreduced(g, exp) ==
    [g EXCEPT !.state = PowMod(g.multiplier, exp, g.modulus) * g.state]

\* pow that also keeps multiplier^exp mod modulus as the multiplier.
pow_drift(g, exp) ==
    LET multiplier == PowMod(g.multiplier, exp, g.modulus)
    IN [g EXCEPT !.multiplier = multiplier,
                 !.state = TruncRem(multiplier * g.state, g.modulus)]

\* LCG::pow
pow(g, exp) ==
    LET multiplier == PowMod(g.multiplier, exp, g.modulus)
    IN [g EXCEPT !.state = TruncRem(multiplier * g.state, g.modulus)]

\* LCG::next
next(g) == pow(g, 1)

(***************************************************************************)
(* State                                                                   *)
(***************************************************************************)
\* State::new: the three fields as given, nothing validated.
State_new(time, gap, g) == [time |-> time, gap |-> gap, lcg |-> g]

\* timestamp_millis() / 100
Tick(ms) == TruncDiv(ms, TickMs)

\* The threshold growing with the gap: modulus * gap / 10.
Threshold_mul(modulus, gap) == TruncDiv(modulus * gap, TicksPerSecond)

\* &self.lcg.modulus / (&self.gap * Integer::from(10)); gap # 0.
Threshold(modulus, gap) == TruncDiv(modulus, gap * TicksPerSecond)

\* The acceptance test with the boundary value accepted.
Accepts_le(state, threshold) == state <= threshold

\* The acceptance test inverted.
Accepts_ge(state, threshold) == state >= threshold

\* The acceptance test that ends the scan: the loop goes on while
\* state >= threshold.
Accepts(state, threshold) == state < threshold

\* Up to k turns of the scan loop of next_time: lcg.next(), then the loop ends
\* if the state is accepted, else the rejected tick is counted.
RECURSIVE ScanChunk(_, _, _, _)
ScanChunk(g, threshold, incs, k) ==
    IF k = 0 THEN [done |-> FALSE, lcg |-> g, incs |-> incs]
    ELSE IF Accepts(next(g).state, threshold)
    THEN [done |-> TRUE, lcg |-> next(g), incs |-> incs]
    ELSE ScanChunk(next(g), threshold, incs + 1, k - 1)

\* The scan loop of next_time, ScanChunkLen turns at a time. After the first
\* next() the state has fewer than modulus values and each value decides the
\* next, so `budget` rejected ticks in a row (budget >= modulus - 1) mean the
\* loop never ends (hung).
RECURSIVE ScanLoop(_, _, _, _)
ScanLoop(g, threshold, incs, budget) ==
    LET r == ScanChunk(g, threshold, incs, ScanChunkLen)
    IN IF r.done THEN [hung |-> FALSE, lcg |-> r.lcg, incs |-> r.incs]
       ELSE IF budget <= 0 THEN [hung |-> TRUE, lcg |-> r.lcg, incs |-> r.incs]
       ELSE ScanLoop(r.lcg, threshold, r.incs, budget - ScanChunkLen)

Scan(g, threshold) == ScanLoop(g, threshold, 0, g.modulus)

\* next_time without the jump.
Resync_none(g, prev_incs, cur_incs) == g

\* The jump one tick short.
Resync_short(g, prev_incs, cur_incs) ==
    IF cur_incs > prev_incs THEN pow(g, cur_incs - prev_incs - 1) ELSE g

\* The generator after the jump of next_time: pow(cur_incs - prev_incs) when
\* cur_incs > prev_incs.
Resync(g, prev_incs, cur_incs) ==
    IF cur_incs > prev_incs THEN pow(g, cur_incs - prev_incs) ELSE g

\* The scan starting at the tick of cur itself.
FirstCandidate_same(cur_incs) == cur_incs

\* The first candidate tick of the scan: let mut new_incs = cur_incs + 1.
FirstCandidate(cur_incs) == cur_incs + 1

\* State::next_time(cur): the outcome and the State it leaves.
next_time(st, c) ==
    IF c >= st.time
    THEN IF st.gap = 0
         THEN [status |-> "panic", st |-> st]
         ELSE LET threshold == Threshold(st.lcg.modulus, st.gap)
                  prev_incs == Tick(st.time)
                  cur_incs == Tick(c)
                  r == Scan(Resync(st.lcg, prev_incs, cur_incs), threshold)
                  new_incs == FirstCandidate(cur_incs) + r.incs
              IN IF r.hung
                 THEN [status |-> "hung", st |-> st]
                 ELSE [status |-> "ok",
                       st |-> [st EXCEPT !.time = new_incs * TickMs,
                                         !.lcg = r.lcg]]
    ELSE [status |-> "ok", st |-> st]

\* The jump of next_time with pow called whatever the tick difference.
JumpPows_always(prev_incs, cur_incs) == <<cur_incs - prev_incs>>

\* The exponents next_time hands to pow for its jump:
\* if cur_incs > prev_incs { self.lcg.pow(Integer::from(cur_incs - prev_incs)) }.
JumpPows(prev_incs, cur_incs) ==
    IF cur_incs > prev_incs THEN <<cur_incs - prev_incs>> ELSE <<>>

\* What next_time(cur) computes before its scan: whether the guard
\* cur >= self.time let it in and the threshold was computed, the difference
\* cur_incs - prev_incs, and the pow calls of the jump.
Jump(st, c) ==
    IF c >= st.time /\ st.gap # 0
    THEN [entered |-> TRUE,
          diff |-> Tick(c) - Tick(st.time),
          pows |-> JumpPows(Tick(st.time), Tick(c))]
    ELSE [entered |-> FALSE, diff |-> 0, pows |-> <<>>]

\* Iterator::next for State: self.next_time(self.time); Some(self.time).
State_next(st) == next_time(st, st.time)

(***************************************************************************)
(* The inputs of the model.                                                *)
(***************************************************************************)
\* (multiplier, modulus) pairs: 3 generates the units mod 31, 2 those mod 83.
Params == {<<3, 31>>, <<2, 83>>}
Seeds(modulus) == {0, 5, (modulus + 3) \div 2}
Generators == UNION {{LCG(p[1], p[2], sd) : sd \in Seeds(p[2])} : p \in Params}
StartTimes == {-150, 0, 250}
Gaps == (-1)..MaxGap
\* cur of next_time, as an offset in ms from the stored time.
CurOffsets == {-70, 0, 40, 100, 700}

NoState == State_new(0, 1, LCG(1, 1, 0))
NoLCG == LCG(1, 1, 0)
NoJump == [entered |-> FALSE, diff |-> 0, pows |-> <<>>]

schedIdle ==
    /\ sched = NoState /\ sched0 = NoState /\ op = Idle /\ cur = 0
    /\ pre = NoState /\ status = Idle /\ ret = NoRet /\ preRet = NoRet
    /\ jump = NoJump
nestIdle ==
    /\ a0 = NoState /\ a = NoState /\ b = NoState
    /\ pingsA = {} /\ pingsB = {}
    /\ statA = Idle /\ statB = Idle
lcgIdle == lcg = NoLCG /\ lcg0 = NoLCG /\ calls = <<>>

(***************************************************************************)
(* Spec: one scheduler.                                                    *)
(***************************************************************************)
Init ==
    /\ \E t \in StartTimes, g \in Gaps, l \in Generators :
          sched = State_new(t, g, l)
    /\ sched0 = sched
    /\ op = "new" /\ cur = sched.time /\ pre = sched
    /\ status = "ok" /\ ret = NoRet /\ preRet = NoRet
    /\ jump = NoJump
    /\ nestIdle /\ lcgIdle

\* A call that returns leaves a time within the model's window.
InWindow(r) == r.status = "ok" => r.st.time <= MaxTime

NextTime(c) ==
    /\ status = "ok"
    /\ LET r == next_time(sched, c)
       IN /\ InWindow(r)
          /\ sched' = r.st
          /\ status' = r.status
    /\ op' = "next_time" /\ cur' = c /\ pre' = sched
    /\ preRet' = ret
    /\ jump' = Jump(sched, c)
    /\ UNCHANGED <<sched0, ret, nestVars, lcgVars>>

\* next_time called again with the cur of the next_time call just made.
NextTimeAgain ==
    /\ status = "ok"
    /\ op = "next_time"
    /\ LET r == next_time(sched, cur)
       IN /\ InWindow(r)
          /\ sched' = r.st
          /\ status' = r.status
    /\ op' = "replay"
    /\ preRet' = ret
    /\ jump' = Jump(sched, cur)
    /\ UNCHANGED <<sched0, cur, pre, ret, nestVars, lcgVars>>

IterNext ==
    /\ status = "ok"
    /\ LET r == State_next(sched)
       IN /\ InWindow(r)
          /\ sched' = r.st
          /\ status' = r.status
          /\ ret' = IF r.status = "ok" THEN <<r.st.time>> ELSE ret
    /\ op' = "next" /\ cur' = sched.time /\ pre' = sched
    /\ preRet' = ret
    /\ jump' = Jump(sched, sched.time)
    /\ UNCHANGED <<sched0, nestVars, lcgVars>>

Next ==
    \/ \E d \in CurOffsets : NextTime(sched.time + d)
    \/ NextTimeAgain
    \/ IterNext

Spec == Init /\ [][Next]_vars

(***************************************************************************)
(* Reference definitions the properties are stated with.                   *)
(***************************************************************************)
\* multiplier^n * seed mod modulus, n >= 0: the generator value n ticks after
\* the seed.
GenValue(g, n) == (PowMod(g.multiplier, n, g.modulus) * g.state) % g.modulus

\* floor(modulus / (gap * 10)) of a scheduler with a positive gap.
ThresholdOf(st) == st.lcg.modulus \div (st.gap * TicksPerSecond)

\* Tick t > tick(starting time) is a ping of the scheduler constructed as st0:
\* the value the generator has t - t0 ticks after the seed is below threshold.
IsPingTick(st0, t) ==
    /\ t > Tick(st0.time)
    /\ GenValue(st0.lcg, t - Tick(st0.time)) < ThresholdOf(st0)

\* The same with the generator indexed by the tick itself, whatever the
\* starting time: multiplier^t * seed mod modulus, t >= 0.
IsAbsolutePingTick(st0, t) == GenValue(st0.lcg, t) < ThresholdOf(st0)

Max(x, y) == IF x >= y THEN x ELSE y

\* The last call was a next_time (made directly or by Iterator::next) with
\* cur not before the stored time, on a scheduler with a positive gap, and it
\* returned.
Advanced ==
    /\ op \in {"next_time", "next"}
    /\ status = "ok"
    /\ cur >= pre.time
    /\ pre.gap > 0

\* A clone of st driven by Iterator::next until the first produced ping whose
\* tick is greater than tc; the outcome of the last call and the State left.
RECURSIVE IterUntil(_, _)
IterUntil(st, tc) ==
    LET r == State_next(st)
    IN IF r.status # "ok" \/ Tick(r.st.time) > tc THEN r
       ELSE IterUntil(r.st, tc)

(***************************************************************************)
(* Properties of Spec.                                                     *)
(***************************************************************************)
\* C3: each timestamp Iterator::next returns is strictly greater than the
\* stored time before the call and than the timestamp it returned before, and
\* no call of next_time or Iterator::next decreases the stored time.
C3_Monotonic ==
    /\ sched.time >= pre.time
    /\ (op = "next" /\ status = "ok") =>
          /\ ret = <<sched.time>>
          /\ sched.time > pre.time
          /\ preRet # NoRet => ret[1] > preRet[1]

C3_Witness ==
    /\ op = "next" /\ status = "ok"
    /\ preRet # NoRet /\ pre.time > preRet[1]

\* C5 as stated: after next_time(cur) with cur not before the stored time,
\* the stored time is the earliest tick t >= max(prev_tick, cur_tick) + 1 with
\* multiplier^t * seed mod modulus below threshold, t the tick index of the
\* timestamp itself, whatever the starting time (here: any at or after the
\* epoch).
C5_AbsoluteTick ==
    (Advanced /\ sched0.time >= 0) =>
        LET lo == Max(Tick(pre.time), Tick(cur)) + 1
            t == Tick(sched.time)
        IN /\ t >= lo
           /\ IsAbsolutePingTick(sched0, t)
           /\ \A u \in lo..(t - 1) : ~IsAbsolutePingTick(sched0, u)

\* C5 amended: the generator is indexed from the starting time. After
\* next_time(cur) with cur not before the stored time, the stored time is the
\* earliest tick t >= max(prev_tick, cur_tick) + 1 with
\* multiplier^(t - t0) * seed mod modulus below threshold, t0 the tick index of
\* the time the scheduler was constructed with.
C5_EarliestRelativeTick ==
    Advanced =>
        LET lo == Max(Tick(pre.time), Tick(cur)) + 1
            t == Tick(sched.time)
        IN /\ t >= lo
           /\ sched.time = t * TickMs
           /\ IsPingTick(sched0, t)
           /\ \A u \in lo..(t - 1) : ~IsPingTick(sched0, u)

C5_Witness ==
    /\ Advanced /\ op = "next_time"
    /\ Tick(sched0.time) > 0
    /\ Tick(cur) > Tick(pre.time)
    /\ Tick(sched.time) > Tick(cur) + 1

\* C6: a next_time(cur) with cur not before the stored time ends as a clone of
\* the State before the call does when it is driven by Iterator::next until
\* the first produced ping whose tick is greater than tick(cur): the same
\* outcome, the same time and the same generator state; and every (time,
\* generator state) reached by any mix of the two calls is one the pure
\* iteration from the State as constructed produces.
C6_SkipAhead ==
    /\ (op = "next_time" /\ cur >= pre.time /\ pre.gap # 0) =>
          LET r == IterUntil(pre, Tick(cur))
          IN /\ r.status = status
             /\ status = "ok" => r.st = sched
    /\ (status = "ok" /\ sched.time # sched0.time) =>
          IterUntil(sched0, Tick(sched.time) - 1) = [status |-> "ok", st |-> sched]

C6_Witness ==
    /\ op = "next_time" /\ status = "ok"
    /\ Tick(cur) > Tick(pre.time)
    /\ \E t \in (Tick(pre.time) + 1)..Tick(cur) : IsPingTick(sched0, t)

\* C7 as stated: the new stored time is the earliest ping instant at or after
\* cur, so a ping instant equal to cur is itself returned (here: for
\* timestamps at or after the epoch).
C7_AtOrAfter ==
    (Advanced /\ sched0.time >= 0) =>
        /\ sched.time >= cur
        /\ IsPingTick(sched0, Tick(sched.time))
        /\ \A t \in Tick(cur)..(Tick(sched.time) - 1) :
              (t * TickMs >= cur) => ~IsPingTick(sched0, t)

\* C7 amended: the new stored time is the earliest ping instant whose tick is
\* strictly greater than the tick of cur, hence strictly after cur; a ping
\* instant equal to cur is passed over.
C7_StrictlyAfter ==
    Advanced =>
        /\ sched.time > cur
        /\ Tick(sched.time) > Tick(cur)
        /\ IsPingTick(sched0, Tick(sched.time))
        /\ \A t \in (Tick(cur) + 1)..(Tick(sched.time) - 1) :
              ~IsPingTick(sched0, t)

C7_Witness ==
    /\ Advanced /\ op = "next_time"
    /\ cur = Tick(cur) * TickMs
    /\ IsPingTick(sched0, Tick(cur))
    /\ sched.time > cur

\* C8 as stated: with a positive gap every call of next_time and Iterator::next
\* completes.
C8_Terminates == sched0.gap > 0 => status # "hung"

\* C9 as stated: no scheduler with a non-positive gap is constructed and then
\* driven by Iterator::next.
C9_NonPositiveGapRejected == op = "next" => pre.gap > 0

\* The last call was next_time(cur) or Iterator::next, and it returned.
Returned == op \in {"next_time", "next"} /\ status = "ok"

\* C14: a next_time(cur) that returns with cur before the stored time leaves
\* time, gap and generator as they were; one with cur at or after the stored
\* time moves the time forward and advances the generator by the number of
\* ticks the time moved, at least one, leaving gap, multiplier and modulus.
C14_NoOpGuard ==
    Returned =>
        IF cur < pre.time
        THEN sched = pre
        ELSE /\ sched.time > pre.time
             /\ Tick(sched.time) > Tick(pre.time)
             /\ sched.gap = pre.gap
             /\ sched.lcg.multiplier = pre.lcg.multiplier
             /\ sched.lcg.modulus = pre.lcg.modulus
             /\ sched.lcg.state =
                    GenValue(pre.lcg, Tick(sched.time) - Tick(pre.time))

\* C14 witness: a next_time(cur) with cur after the stored time has moved the
\* time by more than one tick and changed the generator state.
C14_Witness ==
    /\ op = "next_time" /\ status = "ok"
    /\ cur > pre.time
    /\ Tick(sched.time) > Tick(pre.time) + 1
    /\ sched.lcg.state # pre.lcg.state

\* C15: next_time(cur) called twice in a row with the same cur leaves the
\* scheduler as one call does: the second call returns, does not pass the
\* guard, and the time and generator are those of the first call.
C15_Replay ==
    op = "replay" =>
        /\ status = "ok"
        /\ ~jump.entered
        /\ next_time(pre, cur) = [status |-> "ok", st |-> sched]
        /\ ret = preRet

\* C15 witness: the first of the two calls advanced the scheduler.
C15_Witness ==
    /\ op = "replay" /\ status = "ok"
    /\ cur > pre.time
    /\ sched.time > pre.time
    /\ sched.lcg.state # pre.lcg.state

\* C16: a next_time(cur) that passes its guard never sees a negative tick
\* difference; it hands pow the difference cur_tick - prev_tick, only when
\* that is at least 1, and the rest of its advance is one single step for
\* each tick from cur's tick up to the new time's tick.
C16_PowExponent ==
    /\ jump.entered =>
           /\ jump.diff >= 0
           /\ Len(jump.pows) <= 1
           /\ \A i \in 1..Len(jump.pows) :
                  jump.pows[i] >= 1 /\ jump.pows[i] = Tick(cur) - Tick(pre.time)
           /\ jump.pows = <<>> => jump.diff = 0
    /\ (Returned /\ jump.entered) =>
           sched.lcg.state =
               GenValue(pre.lcg, jump.diff + (Tick(sched.time) - Tick(cur)))

\* C16 witness: a call has handed pow an exponent above 1 and then stepped
\* the generator more than once.
C16_Witness ==
    /\ op = "next_time" /\ status = "ok"
    /\ jump.entered
    /\ jump.pows # <<>> /\ jump.pows[1] > 1
    /\ Tick(sched.time) - Tick(cur) > 1

\* C18: after any sequence of returning calls the generator state is
\* multiplier^(tick(time) - tick(initial time)) * seed mod modulus.
C18_Synchronised ==
    status = "ok" =>
        sched.lcg.state =
            GenValue(sched0.lcg, Tick(sched.time) - Tick(sched0.time))

\* C18 witness: after a jump over several ticks and a produced ping the
\* time has moved and the state is not the seed.
C18_Witness ==
    /\ op = "next" /\ status = "ok"
    /\ pre.time > sched0.time
    /\ Tick(pre.time) - Tick(sched0.time) > 2
    /\ sched.lcg.state # sched0.lcg.state
    /\ sched.lcg.state # pre.lcg.state

\* C19: whenever next_time(cur) returns the stored time is after cur; when
\* the call passed its guard the stored time is a multiple of 100 ms and the
\* generator state is below floor(modulus / (gap * 10)).
C19_PostCondition ==
    (op \in {"next_time", "replay", "next"} /\ status = "ok") =>
        /\ sched.time > cur
        /\ (op # "replay" /\ cur >= pre.time) =>
               /\ sched.time % TickMs = 0
               /\ sched.lcg.state < ThresholdOf(sched)

\* C19 witness: a call that passed its guard has returned after rejecting at
\* least one tick.
C19_Witness ==
    /\ op = "next_time" /\ status = "ok"
    /\ cur >= pre.time
    /\ Tick(sched.time) > Tick(cur) + 1
    /\ sched.time > 0

(***************************************************************************)
(* SpecNest: two schedulers constructed from the same time and generator,  *)
(* with gaps a.gap < b.gap, each driven by Iterator::next.                 *)
(***************************************************************************)
InitNest ==
    /\ \E t \in StartTimes, l \in Generators, ga \in 1..MaxGap, gb \in 1..MaxGap :
          /\ ga < gb
          /\ a = State_new(t, ga, l)
          /\ b = State_new(t, gb, l)
    /\ a0 = a
    /\ pingsA = {} /\ pingsB = {}
    /\ statA = "ok" /\ statB = "ok"
    /\ schedIdle /\ lcgIdle

NestNextA ==
    /\ statA = "ok"
    /\ LET r == State_next(a)
       IN /\ InWindow(r)
          /\ a' = r.st
          /\ statA' = r.status
          /\ pingsA' = IF r.status = "ok" THEN pingsA \cup {r.st.time} ELSE pingsA
    /\ UNCHANGED <<a0, b, pingsB, statB, schedVars, lcgVars>>

NestNextB ==
    /\ statB = "ok"
    /\ LET r == State_next(b)
       IN /\ InWindow(r)
          /\ b' = r.st
          /\ statB' = r.status
          /\ pingsB' = IF r.status = "ok" THEN pingsB \cup {r.st.time} ELSE pingsB
    /\ UNCHANGED <<a0, a, pingsA, statA, schedVars, lcgVars>>

NextNest == NestNextA \/ NestNextB

SpecNest == InitNest /\ [][NextNest]_vars

\* The generator value at the tick of timestamp p, counted from the State the
\* two schedulers were constructed from.
ValueAt(p) == GenValue(a0.lcg, Tick(p) - Tick(a0.time))

\* a's iteration has covered the instant p: it has passed p, or it has ended
\* in a scan that never returns and produces nothing more.
CoveredByA(p) == p <= a.time \/ statA = "hung"

\* C1: every ping the gap-b scheduler produces in a window both iterations
\* have covered is also produced by the gap-a scheduler, a < b.
C1_Nesting == \A p \in pingsB : CoveredByA(p) => p \in pingsA

C1_Witness ==
    /\ pingsB # {}
    /\ \A p \in pingsB : p <= a.time
    /\ \E p \in pingsA : p < b.time /\ p \notin pingsB

\* C2 as stated: the pings of a are a strict superset of those of b: once b
\* has produced a ping and a has been iterated to the same instant, a has
\* produced a ping b lacks, or produces one later (the generator's states recur within modulus
\* ticks). Stated for a nonzero seed: the seed 0 makes every tick a ping.
C2_StrictNesting ==
    (pingsB # {} /\ a.time = b.time /\ a0.lcg.state # 0) =>
        \/ pingsA \ pingsB # {}
        \/ \E n \in 1..a.lcg.modulus :
              /\ GenValue(a.lcg, n) < ThresholdOf(a)
              /\ ~(GenValue(a.lcg, n) < ThresholdOf(b))

\* C2 amended: the pings of a are a superset of those of b, and a ping of a
\* that b lacks is at a tick whose generator value is in
\* [threshold(b), threshold(a)); when floor division gives both gaps the same
\* threshold the two ping sets are equal.
C2_NestingByThreshold ==
    /\ \A p \in pingsB : CoveredByA(p) => p \in pingsA
    /\ \A p \in pingsA :
          (p <= b.time /\ p \notin pingsB) =>
              /\ ValueAt(p) >= ThresholdOf(b)
              /\ ValueAt(p) < ThresholdOf(a)
    /\ (ThresholdOf(a) = ThresholdOf(b) /\ a.time = b.time) => pingsA = pingsB

C2_Witness ==
    /\ ThresholdOf(a) = ThresholdOf(b)
    /\ a.time = b.time
    /\ pingsB # {}
    /\ a0.lcg.state # 0

\* A scheduler constructed with the multiplier, modulus and gap of the first
\* and the (time, generator state) pair the first holds now.
Rebuilt ==
    State_new(sched.time, sched0.gap,
              LCG(sched0.lcg.multiplier, sched0.lcg.modulus, sched.lcg.state))

\* C11: after any number of produced pings, a scheduler rebuilt from the
\* stored time and generator state (same multiplier, modulus and gap)
\* produces the next ping the original produces and is left in the same
\* State, so the two go on with the same pings.
C11_Resumable ==
    (op = "next" /\ status = "ok") => State_next(Rebuilt) = State_next(sched)

\* C11 witness: after a jump and at least two produced pings, on a nonzero
\* seed, the rebuilt scheduler produces a further ping.
C11_Witness ==
    /\ op = "next" /\ status = "ok"
    /\ preRet # NoRet
    /\ sched0.lcg.state # 0
    /\ Tick(sched.time) - Tick(sched0.time) > 3
    /\ State_next(Rebuilt).status = "ok"
    /\ State_next(Rebuilt).st.time > sched.time

\* Both schedulers, on a generator with a nonzero seed, have computed their
\* threshold and produced a ping.
BothScanned == pingsA # {} /\ pingsB # {} /\ a0.lcg.state # 0

\* C13 as stated: of two positive gaps a.gap < b.gap on the same modulus, the
\* smaller has the strictly greater threshold floor(modulus / (gap * 10)).
C13_StrictlyDecreasing ==
    BothScanned =>
        Threshold(a.lcg.modulus, a.gap) > Threshold(b.lcg.modulus, b.gap)

\* C13 amended: the threshold of the smaller gap is at least that of the
\* greater, and strictly greater when modulus * (b - a) >= 10 * a * b.
C13_NonIncreasing ==
    /\ Threshold(a.lcg.modulus, a.gap) >= Threshold(b.lcg.modulus, b.gap)
    /\ a.lcg.modulus * (b.gap - a.gap) >= TicksPerSecond * a.gap * b.gap =>
           Threshold(a.lcg.modulus, a.gap) > Threshold(b.lcg.modulus, b.gap)

\* C13 witness: both schedulers have scanned, one pair of gaps with strictly
\* ordered thresholds (this state) and, elsewhere, pairs with equal ones.
C13_Witness ==
    /\ BothScanned
    /\ a.lcg.modulus * (b.gap - a.gap) >= TicksPerSecond * a.gap * b.gap
    /\ Threshold(b.lcg.modulus, b.gap) > 0
    /\ b.gap > a.gap + 1

(***************************************************************************)
(* SpecLCG: one generator, any state, driven by pow(exp) and next().       *)
(***************************************************************************)
LcgParams == Params \cup {<<34, 31>>}
LcgStates(modulus) == {-(modulus + 3), -5, 0, 5, modulus - 1, modulus, modulus + 3}
LcgInputs ==
    UNION {{LCG(p[1], p[2], sd) : sd \in LcgStates(p[2])} : p \in LcgParams}

InitLCG ==
    /\ lcg \in LcgInputs
    /\ lcg0 = lcg
    /\ calls = <<>>
    /\ schedIdle /\ nestIdle

LcgPow(exp) ==
    /\ Len(calls) < MaxCalls
    /\ lcg' = pow(lcg, exp)
    /\ calls' = Append(calls, <<"pow", exp>>)
    /\ UNCHANGED <<lcg0, schedVars, nestVars>>

LcgNext ==
    /\ Len(calls) < MaxCalls
    /\ lcg' = next(lcg)
    /\ calls' = Append(calls, <<"next", 1>>)
    /\ UNCHANGED <<lcg0, schedVars, nestVars>>

NextLCG ==
    \/ \E exp \in 0..MaxExp : LcgPow(exp)
    \/ LcgNext

SpecLCG == InitLCG /\ [][NextLCG]_vars

\* The run so far is a single pow(n) on the generator as constructed.
OnePow(n) == calls = <<<<"pow", n>>>>

\* The run so far is n calls of next() (n >= 0).
OnlyNexts == \A i \in 1..Len(calls) : calls[i][1] = "next"

\* n calls of next() on a clone of g.
RECURSIVE Steps(_, _)
Steps(g, n) == IF n = 0 THEN g ELSE Steps(next(g), n - 1)

\* C4 as stated: for every n >= 0 and every starting state, pow(n) leaves the
\* state n calls of next() from the same start leave.
C4_JumpEqualsSteps ==
    \A n \in 0..MaxExp : OnePow(n) => lcg.state = Steps(lcg0, n).state

\* C4 amended: for every n >= 1 and every starting state (modulus > 0), pow(n)
\* leaves the state n calls of next() leave; pow(0) leaves state % modulus
\* (the remainder with the sign of the state), which is the state no call of
\* next() leaves only when the state is in (-modulus, modulus).
C4_JumpEqualsStepsFromOne ==
    /\ \A n \in 1..MaxExp : OnePow(n) => lcg.state = Steps(lcg0, n).state
    /\ (OnlyNexts /\ Len(calls) >= 1) =>
          lcg.state = pow(lcg0, Len(calls)).state
    /\ OnePow(0) =>
          /\ lcg.state = TruncRem(lcg0.state, lcg0.modulus)
          /\ (lcg.state = lcg0.state) <=> (Abs(lcg0.state) < lcg0.modulus)

C4_Witness ==
    /\ \E n \in 2..MaxExp : OnePow(n)
    /\ Abs(lcg0.state) > lcg0.modulus
    /\ lcg.state # 0

\* C10: pow(p) followed by pow(q) leaves the state a single pow(p + q) leaves,
\* for every starting state; and pow(0) leaves a state in [0, modulus) as it
\* is.
C10_Additive ==
    /\ \A p, q \in 0..MaxExp :
          calls = <<<<"pow", p>>, <<"pow", q>>>> =>
              lcg.state = pow(lcg0, p + q).state
    /\ (OnePow(0) /\ lcg0.state \in 0..(lcg0.modulus - 1)) =>
          lcg.state = lcg0.state

C10_Witness ==
    /\ \E p, q \in 1..MaxExp : calls = <<<<"pow", p>>, <<"pow", q>>>>
    /\ lcg.state \notin {0, lcg0.state}

\* The generator was constructed with a state in [0, modulus).
SeedInRange == lcg0.state >= 0 /\ lcg0.state < lcg0.modulus

\* C17: from a state in [0, modulus), after any sequence of pow(n), n >= 0,
\* and next() the state is in [0, modulus) and multiplier and modulus are
\* those the generator was constructed with.
C17_StateInRange ==
    SeedInRange =>
        /\ lcg.state >= 0 /\ lcg.state < lcg.modulus
        /\ lcg.multiplier = lcg0.multiplier
        /\ lcg.modulus = lcg0.modulus

\* C17 witness: a pow(n), n > 1, and a next() have both acted on a nonzero
\* in-range state and changed it.
C17_Witness ==
    /\ SeedInRange /\ lcg0.state # 0
    /\ Len(calls) >= 2
    /\ \E i \in 1..Len(calls) : calls[i][1] = "pow" /\ calls[i][2] > 1
    /\ \E i \in 1..Len(calls) : calls[i][1] = "next"
    /\ lcg.state # lcg0.state

(***************************************************************************)
(* rug's Integer at the width of the shipped constants.  IM is beyond the  *)
(* integers TLC computes with, so a value is a sequence of limbs in base   *)
(* LimbBase, least significant first, without leading zero limbs; <<>> is  *)
(* 0.  Only values >= 0 occur.                                             *)
(***************************************************************************)
LimbBase == 10000

Limb(x, i) == IF i <= Len(x) THEN x[i] ELSE 0

\* Drop the zero limbs at the most significant end.
RECURSIVE WideTrim(_)
WideTrim(x) ==
    IF Len(x) > 0 /\ x[Len(x)] = 0 THEN WideTrim(SubSeq(x, 1, Len(x) - 1)) ELSE x

\* Carry the columns cols[i..] into limbs below LimbBase, appended to acc.
RECURSIVE WideCarry(_, _, _, _)
WideCarry(cols, i, carry, acc) ==
    IF i > Len(cols) /\ carry = 0 THEN acc
    ELSE LET v == Limb(cols, i) + carry
         IN WideCarry(cols, i + 1, v \div LimbBase, Append(acc, v % LimbBase))

\* Integer::from(n) for an n >= 0.
ToWide(n) == WideTrim(WideCarry(<<n>>, 1, 0, <<>>))

\* A value written as its groups of four decimal digits, most significant
\* first.
Wide(groups) == WideTrim([i \in 1..Len(groups) |-> groups[Len(groups) + 1 - i]])

\* The sum of the limb products x[i] * y[c + 1 - i] of column c.
RECURSIVE WideColumn(_, _, _, _)
WideColumn(x, y, c, i) ==
    IF i > c THEN 0
    ELSE Limb(x, i) * Limb(y, c + 1 - i) + WideColumn(x, y, c, i + 1)

\* A product kept in four limbs, its higher limbs cut off.
WideMul_narrow(x, y) ==
    LET cols == [c \in 1..(Len(x) + Len(y)) |-> WideColumn(x, y, c, 1)]
        full == WideCarry(cols, 1, 0, <<>>)
    IN WideTrim(SubSeq(full, 1, IF Len(full) < 4 THEN Len(full) ELSE 4))

\* Integer `*`: the whole product, Len(x) + Len(y) limbs at most.
WideMul(x, y) ==
    LET cols == [c \in 1..(Len(x) + Len(y)) |-> WideColumn(x, y, c, 1)]
    IN WideTrim(WideCarry(cols, 1, 0, <<>>))

\* x >= y
WideGeq(x, y) ==
    IF Len(x) # Len(y) THEN Len(x) > Len(y)
    ELSE LET d == {i \in 1..Len(x) : x[i] # y[i]}
         IN \/ d = {}
            \/ LET top == CHOOSE i \in d : \A j \in d : j <= i
               IN x[top] > y[top]

\* The limbs of x - y from limb i on, for x >= y, appended to acc.
RECURSIVE WideBorrow(_, _, _, _, _)
WideBorrow(x, y, i, borrow, acc) ==
    IF i > Len(x) THEN acc
    ELSE LET v == x[i] - Limb(y, i) - borrow
         IN IF v < 0
            THEN WideBorrow(x, y, i + 1, 1, Append(acc, v + LimbBase))
            ELSE WideBorrow(x, y, i + 1, 0, Append(acc, v))

\* x - y for x >= y
WideSub(x, y) == WideTrim(WideBorrow(x, y, 1, 0, <<>>))

\* 10^d
WidePow10(d) ==
    [i \in 1..(d \div 4 + 1) |->
        IF i <= d \div 4 THEN 0
        ELSE IF d % 4 = 0 THEN 1 ELSE IF d % 4 = 1 THEN 10
        ELSE IF d % 4 = 2 THEN 100 ELSE 1000]

\* x less t as often as t fits; at most nine times in WideRemLoop.
RECURSIVE WideSubWhile(_, _)
WideSubWhile(x, t) == IF WideGeq(x, t) THEN WideSubWhile(WideSub(x, t), t) ELSE x

\* Long division keeping the remainder: x < m * 10^(d + 1) on entry.
RECURSIVE WideRemLoop(_, _, _)
WideRemLoop(x, m, d) ==
    IF d < 0 THEN x
    ELSE LET r == WideSubWhile(x, WideMul(m, WidePow10(d)))
         IN WideRemLoop(r, m, d - 1)

\* Integer `%` for x >= 0 and m > 0.
WideRem(x, m) ==
    IF Len(x) < Len(m) THEN x
    ELSE WideRemLoop(x, m, 4 * (Len(x) - Len(m) + 1) - 1)

\* Integer::pow_mod for exp >= 0 and modulus > 0, as PowMod.
RECURSIVE WidePowMod(_, _, _)
WidePowMod(base, exp, modulus) ==
    IF exp = 0 THEN WideRem(ToWide(1), modulus)
    ELSE LET h == WidePowMod(base, exp \div 2, modulus)
             sq == WideRem(WideMul(h, h), modulus)
         IN IF exp % 2 = 1 THEN WideRem(WideMul(sq, base), modulus) ELSE sq

\* LCG::pow on a generator whose fields are wide values.
WidePow(g, exp) ==
    LET multiplier == WidePowMod(g.multiplier, exp, g.modulus)
    IN [g EXCEPT !.state = WideRem(WideMul(multiplier, g.state), g.modulus)]

\* LCG::next
WideNext(g) == WidePow(g, 1)

(***************************************************************************)
(* SpecRef: the default generator, driven by pow(exp) and next().          *)
(***************************************************************************)
IA == 3125
IM == Wide(<<343, 5973, 8337>>)
SEED == 20180809

\* The states the tests expect after 1..4 steps from the default generator.
IDEAL_RNG ==
    << Wide(<<287, 528, 9788>>),
       Wide(<<251, 1352, 7930>>),
       Wide(<<21, 3241, 9542>>),
       Wide(<<323, 8156, 9709>>) >>

\* The number of steps the tests take: for i in 0..4.
RefLen == 4

\* LCG::default()
DefaultLCG == LCG(ToWide(IA), IM, ToWide(SEED))

InitRef ==
    /\ schedIdle /\ nestIdle
    /\ lcg = DefaultLCG
    /\ lcg0 = lcg
    /\ calls = <<>>

RefPow(exp) ==
    /\ Len(calls) < RefLen
    /\ lcg' = WidePow(lcg, exp)
    /\ calls' = Append(calls, <<"pow", exp>>)
    /\ UNCHANGED <<lcg0, schedVars, nestVars>>

RefNext ==
    /\ Len(calls) < RefLen
    /\ lcg' = WideNext(lcg)
    /\ calls' = Append(calls, <<"next", 1>>)
    /\ UNCHANGED <<lcg0, schedVars, nestVars>>

NextRef ==
    \/ \E exp \in 0..RefLen : RefPow(exp)
    \/ RefNext

SpecRef == InitRef /\ [][NextRef]_vars

\* C12: from the default generator (3125, 34359738337, 20180809) the states
\* after 1, 2, 3, 4 single steps are 28705289788, 25113527930, 2132419542,
\* 32381569709, and one jump of i steps, i = 1..4, gives the i-th of them.
C12_ReferenceVectors ==
    /\ (calls # <<>> /\ OnlyNexts) => lcg.state = IDEAL_RNG[Len(calls)]
    /\ \A i \in 1..RefLen : OnePow(i) => lcg.state = IDEAL_RNG[i]

\* C12 witness: the jump of four steps has given the fourth value, through a
\* product of more than sixteen digits.
C12_Witness ==
    /\ OnePow(RefLen)
    /\ lcg.state = IDEAL_RNG[RefLen]
    /\ Len(WideMul(WidePowMod(lcg0.multiplier, RefLen, lcg0.modulus),
                   lcg0.state)) > 4

====
